---- MODULE Spec2Model ----
(***************************************************************************)
(* Model of the file explorer / editor component                          *)
(* (src/src/components/FileExplorer.tsx, third revision in the file,      *)
(* lines 421-1125) and of its context provider                            *)
(* (src/src/contexts/FileExplorerContext.tsx).                            *)
(*                                                                         *)
(* Representation.  A file or directory name is the sequence of its       *)
(* '.'-separated parts ("a.ts" is <<"a","ts">>, ".gitignore" is           *)
(* <<"","gitignore">>); a path is the sequence of its '/'-separated        *)
(* names, the empty string being <<>>.  A JavaScript object used as a      *)
(* Record<string, FileEntry> is the sequence of its values in insertion    *)
(* order, each value carrying the key it is stored under.  A               *)
(* FileSystemHandle is the location it names: the picked directory         *)
(* followed by the path below it.                                          *)
(***************************************************************************)
EXTENDS Integers, Sequences, FiniteSets, TLC

VARIABLES fileEntries, selectedFile, editedFiles, gitignorePatterns, logs,
          disk, lastOp,
          \* the handlers that are suspended at an await
          pending,
          \* a file name handed to the language classifier, and what the
          \* classifier or the tree adapter returned
          input, output,
          \* the function the editor runs on Ctrl/Cmd+S, once it is mounted
          keyCommand

vars == <<fileEntries, selectedFile, editedFiles, gitignorePatterns, logs,
          disk, lastOp, pending, input, output, keyCommand>>

\* ---------------------------------------------------------------- bounds
\* The log is append-only; a handler runs only while the log has room.
MaxLog == 4
\* The nesting of directories in the trees handed to the tree adapter.
MaxDepth == 2
\* The handlers that can be suspended at the same time.
MaxPending == 2

\* ------------------------------------------------------ the environment
NameA == <<"a", "ts">>
NameB == <<"b", "py">>
DirD == <<"d">>
DirE == <<"e">>
\* A hidden directory (".git").
DirHidden == <<"", "git">>
GitignoreName == <<"", "gitignore">>
RootR == <<"R">>
RootO == <<"O">>

\* The directories the directory picker can return.
Roots == {RootR, RootO}
FileNames == {NameA, NameB}
\* What the editor hands to its change handler: a text, or undefined.
Undefined == "<undefined>"
EditorValues == {"x", Undefined}
Null == [type |-> "null"]
Abort == <<"<abort>">>
\* What prompt() returns when the user enters nothing.
NoName == <<>>

\* Directories that exist on the user's machine (the program can neither
\* create nor remove a directory).
DiskDirs ==
    {<<RootR>>, <<RootR, DirD>>, <<RootR, DirE>>, <<RootR, DirHidden>>,
     <<RootO>>}

\* The directories that hold a .gitignore, and its lines.
HasGitignore(dirHandle) == dirHandle \in {<<RootR>>, <<RootR, DirD>>}
GitignoreLines(dirHandle) ==
    IF dirHandle = <<RootR>> THEN <<"# build", "", "b.py">>
    ELSE IF dirHandle = <<RootR, DirD>> THEN <<"e">>
    ELSE <<>>
CommentLines == {"# build"}

\* The order in which a directory lists its entries is the file system's:
\* this one (reversed: its reverse).
NameOrder == <<NameA, NameB, DirD, DirE, DirHidden, GitignoreName>>
ListingOrders == {FALSE}

\* The files present when the component is constructed.
InitialDisk ==
    (<<RootR, NameA>> :> "y") @@ (<<RootR, DirD, NameB>> :> "y")
    @@ (<<RootR, DirHidden, NameA>> :> "y")

\* What can go wrong while a directory is scanned: nothing, the read of a
\* file throws, the listing of a sub-directory throws.
NoFault == <<>>
ScanFaults == {NoFault, <<RootR, NameA>>, <<RootR, DirD>>}

\* ------------------------------------------------------------- strings
Last(s) == s[Len(s)]
Front(s) == IF s = <<>> THEN <<>> ELSE SubSeq(s, 1, Len(s) - 1)

\* name.startsWith(".") that never holds.
StartsWithDotNever(name) == FALSE

\* name.startsWith(".")
StartsWithDot(name) == name[1] = ""

\* The text of a name, for the patterns of an ignore-file.
NameText(name) ==
    IF name = NameA THEN "a.ts"
    ELSE IF name = NameB THEN "b.py"
    ELSE IF name = DirD THEN "d"
    ELSE IF name = DirE THEN "e"
    ELSE IF name = DirHidden THEN ".git"
    ELSE IF name = GitignoreName THEN ".gitignore"
    ELSE "?"

ToLowerCase(s) ==
    IF s = "TS" THEN "ts" ELSE IF s = "PY" THEN "py" ELSE s

LanguageMapKeys ==
    {"js", "jsx", "ts", "tsx", "html", "css", "scss", "sass", "json", "md",
     "py", "java", "c", "cpp", "h", "hpp", "rs", "go", "rb", "php", "sql",
     "yaml", "yml", "xml", "sh", "bash", "zsh"}

languageMap(ext) ==
    CASE ext \in {"js", "jsx"} -> "javascript"
      [] ext \in {"ts", "tsx"} -> "typescript"
      [] ext = "html" -> "html"
      [] ext \in {"css", "scss", "sass"} -> "css"
      [] ext = "json" -> "json"
      [] ext = "md" -> "markdown"
      [] ext = "py" -> "python"
      [] ext = "java" -> "java"
      [] ext = "c" -> "c"
      [] ext \in {"cpp", "h", "hpp"} -> "cpp"
      [] ext = "rs" -> "rust"
      [] ext = "go" -> "go"
      [] ext = "rb" -> "ruby"
      [] ext = "php" -> "php"
      [] ext = "sql" -> "sql"
      [] ext \in {"yaml", "yml"} -> "yaml"
      [] ext = "xml" -> "xml"
      [] ext \in {"sh", "bash", "zsh"} -> "shell"

\* filename.split('.').pop() of a path: the text after the last '.' of the
\* whole string, or the whole string when it holds no '.'.
SplitDotPop(path) ==
    IF path = <<>> THEN ""
    ELSE IF Len(Last(path)) > 1 THEN Last(Last(path))
    ELSE IF Len(path) = 1 THEN Last(path)[1]
    ELSE "<text holding a slash>"

getLanguageFromFileName(filename) ==
    LET ext == ToLowerCase(SplitDotPop(filename))
    IN IF ext \in LanguageMapKeys THEN languageMap(ext) ELSE "plaintext"

\* ------------------------------------------- Record<string, FileEntry>
RECURSIVE RecordDelete(_, _)
RecordDelete(rec, key) ==
    IF rec = <<>> THEN <<>>
    ELSE IF Head(rec).key = key THEN Tail(rec)
    ELSE <<Head(rec)>> \o RecordDelete(Tail(rec), key)

RecordHas(rec, key) == \E i \in 1..Len(rec) : rec[i].key = key

\* rec[key] = value: an existing key keeps its place, a new one is appended.
RecordSet(rec, key, value) ==
    IF RecordHas(rec, key)
    THEN [i \in 1..Len(rec) |->
            IF rec[i].key = key THEN [value EXCEPT !.key = key] ELSE rec[i]]
    ELSE Append(rec, [value EXCEPT !.key = key])

FileEntry(handle, path, type, name, children) ==
    [key |-> path, handle |-> handle, path |-> path, type |-> type,
     name |-> name, children |-> children]

\* findEntryByPath that returns the first entry whatever its path.
findEntryByPathAny(entries, path) ==
    IF entries = <<>> THEN Null ELSE Head(entries)

RECURSIVE findEntryByPath(_, _)
findEntryByPath(entries, path) ==
    IF entries = <<>> THEN Null
    ELSE LET entry == Head(entries)
             found == IF entry.type = "directory"
                      THEN findEntryByPath(entry.children, path)
                      ELSE Null
         IN IF entry.path = path THEN entry
            ELSE IF found # Null THEN found
            ELSE findEntryByPath(Tail(entries), path)

\* SetChild that stores the value among the root entries.
SetChildAtRoot(entries, parentPath, key, value) ==
    RecordSet(entries, key, value)

\* The tree after parentEntry.children[key] = value, parentEntry being the
\* entry findEntryByPath returns for parentPath (the first one in order).
RECURSIVE SetChild(_, _, _, _)
SetChild(entries, parentPath, key, value) ==
    IF entries = <<>> THEN <<>>
    ELSE LET entry == Head(entries)
         IN IF entry.path = parentPath
            THEN <<[entry EXCEPT !.children = RecordSet(@, key, value)]>>
                 \o Tail(entries)
            ELSE IF entry.type = "directory"
                    /\ findEntryByPath(entry.children, parentPath) # Null
            THEN <<[entry EXCEPT
                      !.children = SetChild(@, parentPath, key, value)]>>
                 \o Tail(entries)
            ELSE <<entry>> \o SetChild(Tail(entries), parentPath, key, value)

\* The tree after delete parentEntry.children[key].
RECURSIVE DeleteChild(_, _, _)
DeleteChild(entries, parentPath, key) ==
    IF entries = <<>> THEN <<>>
    ELSE LET entry == Head(entries)
         IN IF entry.path = parentPath
            THEN <<[entry EXCEPT !.children = RecordDelete(@, key)]>>
                 \o Tail(entries)
            ELSE IF entry.type = "directory"
                    /\ findEntryByPath(entry.children, parentPath) # Null
            THEN <<[entry EXCEPT
                      !.children = DeleteChild(@, parentPath, key)]>>
                 \o Tail(entries)
            ELSE <<entry>> \o DeleteChild(Tail(entries), parentPath, key)

\* Every entry of the tree, at any depth.
RECURSIVE AllEntries(_)
AllEntries(entries) ==
    IF entries = <<>> THEN {}
    ELSE {Head(entries)}
         \cup (IF Head(entries).type = "directory"
               THEN AllEntries(Head(entries).children) ELSE {})
         \cup AllEntries(Tail(entries))

\* ------------------------------------------------------- ignore matcher
\* ignore().add(patterns).ignores(path) for patterns that are plain names:
\* a pattern without a separator matches a file or directory of that name
\* at any depth, and with it everything below.
Ignores(patterns, path) ==
    \E i \in 1..Len(path) : \E j \in 1..Len(patterns) :
        NameText(path[i]) = patterns[j]

isIgnored(path) == Ignores(gitignorePatterns, path)

\* ------------------------------------------------------------ scanning
\* A capability call: the operation and the handle it is issued on.
Call(op, h) == <<op, h>>

Reverse(s) == [i \in 1..Len(s) |-> s[Len(s) + 1 - i]]

IsPresent(dirHandle, name) ==
    \/ Append(dirHandle, name) \in DOMAIN disk
    \/ Append(dirHandle, name) \in DiskDirs
    \/ name = GitignoreName /\ HasGitignore(dirHandle)

\* dirHandle.entries(): the names in the directory, in the listing order.
Listing(dirHandle, reversed) ==
    LET present(name) == IsPresent(dirHandle, name)
        names == SelectSeq(NameOrder, present)
    IN IF reversed THEN Reverse(names) ELSE names

EntryKind(dirHandle, name) ==
    IF Append(dirHandle, name) \in DiskDirs THEN "directory" ELSE "file"

\* The patterns loadGitignore hands to setGitignorePatterns.
GitignorePatternsOf(dirHandle) ==
    LET keep(line) == line # "" /\ line \notin CommentLines
    IN SelectSeq(GitignoreLines(dirHandle), keep)

\* The state gitignorePatterns after loadGitignore(dirHandle), from cur.
loadGitignore(dirHandle, cur) ==
    IF HasGitignore(dirHandle) THEN GitignorePatternsOf(dirHandle) ELSE cur

\* isTextFile: the read of a file that is on the disk yields a string; a
\* read that throws is caught and yields false, and nothing is logged.
isTextFile(fileHandle, fault) ==
    fileHandle \in DOMAIN disk /\ fileHandle # fault

\* The entries scanDirectory passes over: hidden names and the paths that
\* isIgnored rejects.  isIgnored is the closure of the render that started
\* the handler: it reads the state gitignorePatterns as it was then,
\* whatever loadGitignore has set in the meantime.
Skipped(name, fullPath) == StartsWithDot(name) \/ isIgnored(fullPath)

\* scanDirectory has no try/catch: the listing of dirHandle, or of a
\* directory it descends into, throws out of it.
RECURSIVE scanThrows(_, _, _, _, _)
scanThrows(dirHandle, path, names, reversed, fault) ==
    \/ dirHandle = fault
    \/ \E i \in 1..Len(names) :
          LET name == names[i]
              fullPath == Append(path, name)
              entry == Append(dirHandle, name)
          IN /\ ~Skipped(name, fullPath)
             /\ EntryKind(dirHandle, name) = "directory"
             /\ scanThrows(entry, fullPath, Listing(entry, reversed),
                           reversed, fault)

\* scanDirectory over the names still to visit, when no listing throws.
RECURSIVE scanNames(_, _, _, _, _)
scanNames(dirHandle, path, names, reversed, fault) ==
    IF names = <<>> THEN <<>>
    ELSE LET name == Head(names)
             fullPath == Append(path, name)
             entry == Append(dirHandle, name)
             rest == scanNames(dirHandle, path, Tail(names), reversed, fault)
         IN IF Skipped(name, fullPath) THEN rest
            ELSE IF EntryKind(dirHandle, name) = "file"
            THEN IF isTextFile(entry, fault)
                 THEN <<FileEntry(entry, fullPath, "file", name, <<>>)>>
                      \o rest
                 ELSE rest
            ELSE <<FileEntry(entry, fullPath, "directory", name,
                             scanNames(entry, fullPath,
                                       Listing(entry, reversed), reversed,
                                       fault))>>
                 \o rest

scanDirectory(dirHandle, path, reversed, fault) ==
    scanNames(dirHandle, path, Listing(dirHandle, reversed), reversed, fault)

\* The entries() calls the scan issues below dirHandle, in order, up to the
\* one that throws.
RECURSIVE scanListed(_, _, _, _, _)
scanListed(dirHandle, path, names, reversed, fault) ==
    IF names = <<>> THEN <<>>
    ELSE LET name == Head(names)
             fullPath == Append(path, name)
             entry == Append(dirHandle, name)
             sub == Listing(entry, reversed)
             inner == IF entry = fault THEN <<Call("entries", entry)>>
                      ELSE <<Call("entries", entry)>>
                           \o scanListed(entry, fullPath, sub, reversed,
                                         fault)
             rest == scanListed(dirHandle, path, Tail(names), reversed,
                                fault)
         IN IF Skipped(name, fullPath)
               \/ EntryKind(dirHandle, name) = "file"
            THEN rest
            ELSE IF scanThrows(entry, fullPath, sub, reversed, fault)
            THEN inner
            ELSE inner \o rest

\* The state gitignorePatterns once the scan is over or has thrown: every
\* sub-directory whose scan returned has its .gitignore loaded after it.
RECURSIVE scanGitignore(_, _, _, _, _, _)
scanGitignore(dirHandle, path, names, reversed, fault, cur) ==
    IF names = <<>> \/ dirHandle = fault THEN cur
    ELSE LET name == Head(names)
             fullPath == Append(path, name)
             entry == Append(dirHandle, name)
             sub == Listing(entry, reversed)
             inner == scanGitignore(entry, fullPath, sub, reversed, fault,
                                    cur)
         IN IF Skipped(name, fullPath)
               \/ EntryKind(dirHandle, name) = "file"
            THEN scanGitignore(dirHandle, path, Tail(names), reversed,
                               fault, cur)
            ELSE IF scanThrows(entry, fullPath, sub, reversed, fault)
            THEN inner
            ELSE scanGitignore(dirHandle, path, Tail(names), reversed,
                               fault, loadGitignore(entry, inner))

\* ---------------------------------------------------------------- state
EmptySelection ==
    [filename |-> <<>>, code |-> "", language |-> "plaintext",
     isModified |-> FALSE]

\* What the last handler was given and did: its argument, the capability
\* calls it issued in order, the call that threw ("none": no call threw) and
\* whether it ran to its end.
Op(name, arg, calls, threw, ok) ==
    [name |-> name, arg |-> arg, calls |-> calls, threw |-> threw,
     ok |-> ok]

Init ==
    /\ fileEntries = <<>>
    /\ selectedFile = EmptySelection
    /\ editedFiles = <<>>
    /\ gitignorePatterns = <<>>
    /\ logs = <<>>
    /\ disk = InitialDisk
    /\ lastOp = Op("init", <<>>, <<>>, "none", TRUE)
    /\ pending = <<>>
    /\ input = <<>>
    /\ output = Null
    /\ keyCommand = Null

\* log that drops the message.
logDropped(kind) == logs

\* const log = (msg) => setLogs((prev) => [...prev, msg])
log(kind) == Append(logs, kind)
HasRoom == Len(logs) < MaxLog

\* ------------------------------------------------------------- handlers
\* A handler whose failures are swallowed.
CaughtNever(thrown) == FALSE

\* try { ... } catch: control reaches the catch block when a call threw.
Caught(thrown) == thrown # "none"

\* handleDirectoryPick that commits whatever it has scanned.
committedEntriesAlways(thrown, entries) == entries

\* setFileEntries(entries) is the last statement of the try block: the tree
\* is replaced only when nothing before it threw.
committedEntries(thrown, entries) ==
    IF Caught(thrown) THEN fileEntries ELSE entries

\* handleDirectoryPick; picked is the directory the user grants, or Abort.
\* The calls recorded are the directory listings of the scan.
handleDirectoryPick(picked, reversed) ==
    /\ HasRoom
    /\ UNCHANGED <<selectedFile, editedFiles, disk>>
    /\ \E fault \in {f \in ScanFaults : f = NoFault \/ f[1] = picked} :
         LET handle == <<picked>>
             names == Listing(handle, reversed)
             loaded == loadGitignore(handle, gitignorePatterns)
             thrown ==
                 IF picked = Abort THEN "showDirectoryPicker"
                 ELSE IF scanThrows(handle, <<>>, names, reversed, fault)
                 THEN "entries"
                 ELSE "none"
             calls ==
                 IF picked = Abort THEN <<>>
                 ELSE <<Call("entries", handle)>>
                      \o scanListed(handle, <<>>, names, reversed, fault)
             arg == [picked |-> picked, fault |-> fault]
         IN /\ fileEntries' =
                   committedEntries(thrown,
                       scanDirectory(handle, <<>>, reversed, fault))
            /\ gitignorePatterns' =
                   IF picked = Abort THEN gitignorePatterns
                   ELSE scanGitignore(handle, <<>>, names, reversed, fault,
                                      loaded)
            /\ logs' = IF thrown = "showDirectoryPicker" THEN log("error")
                       ELSE IF thrown = "entries"
                       THEN logs \o <<"ok", "error">>
                       ELSE log("ok")
            /\ lastOp' = Op("pick", arg, calls, thrown, ~Caught(thrown))

\* handleEditorChange that forgets to mirror the edit into editedFiles.
handleEditorChangeUnmirrored(value) ==
    LET newCode == IF value = Undefined THEN "" ELSE value
    IN /\ selectedFile' = [selectedFile EXCEPT !.code = newCode,
                                               !.isModified = TRUE]
       /\ lastOp' = Op("updateCode", newCode, <<>>, "none", TRUE)
       /\ UNCHANGED <<fileEntries, editedFiles, gitignorePatterns, logs,
                      disk>>

\* handleEditorChange
handleEditorChange(value) ==
    LET newCode == IF value = Undefined THEN "" ELSE value
    IN /\ selectedFile' = [selectedFile EXCEPT !.code = newCode,
                                               !.isModified = TRUE]
       /\ editedFiles' =
              (selectedFile.filename :>
                   [code |-> newCode, language |-> selectedFile.language,
                    isModified |-> TRUE]) @@ editedFiles
       /\ lastOp' = Op("updateCode", newCode, <<>>, "none", TRUE)
       /\ UNCHANGED <<fileEntries, gitignorePatterns, logs, disk>>

Buffer(code, language, isModified) ==
    [code |-> code, language |-> language, isModified |-> isModified]
Select(filename, buffer) ==
    [filename |-> filename, code |-> buffer.code,
     language |-> buffer.language, isModified |-> buffer.isModified]
\* window.showDirectoryPicker(): a directory, or Abort when the user cancels.
PickerResults == Roots \cup {Abort}

\* loadFile that never looks at the pending edits.
hasEditedFileNever(path) == FALSE

\* const editedFile = editedFiles[path]; if (editedFile)
hasEditedFile(path) == path \in DOMAIN editedFiles

\* loadFile
loadFile(path) ==
    LET entry == findEntryByPath(fileEntries, path)
    IN /\ HasRoom
       /\ UNCHANGED <<fileEntries, editedFiles, gitignorePatterns, disk>>
       /\ IF hasEditedFile(path)
          THEN /\ selectedFile' = Select(path, editedFiles[path])
               /\ logs' = log("info")
               /\ lastOp' = Op("load", path, <<>>, "none", TRUE)
          ELSE IF entry = Null
          THEN /\ logs' = log("error")
               /\ lastOp' = Op("load", path, <<>>, "none", FALSE)
               /\ UNCHANGED selectedFile
          ELSE IF entry.type # "file"
          THEN /\ lastOp' = Op("load", path, <<>>, "none", FALSE)
               /\ UNCHANGED <<selectedFile, logs>>
          ELSE \E fault \in {"none", "getFile"} :
                 LET thrown == IF entry.handle \in DOMAIN disk THEN fault
                               ELSE "getFile"
                     calls == <<Call("getFile", entry.handle)>>
                 IN IF Caught(thrown)
                    THEN /\ logs' = log("error")
                         /\ lastOp' = Op("load", path, calls, thrown, FALSE)
                         /\ UNCHANGED selectedFile
                    ELSE /\ selectedFile' =
                                Select(path,
                                       Buffer(disk[entry.handle],
                                              getLanguageFromFileName(path),
                                              FALSE))
                         /\ logs' = log("info")
                         /\ lastOp' = Op("load", path, calls, thrown, TRUE)

\* saveFile that writes an empty file.
writtenTextEmpty == ""

\* await writable.write(selectedFile.code)
writtenText == selectedFile.code

\* saveFile that stores the buffer still marked modified.
savedEditModified ==
    Buffer(selectedFile.code, selectedFile.language, TRUE)

\* The buffer saveFile stores once the write has succeeded.
savedEdit == Buffer(selectedFile.code, selectedFile.language, FALSE)

\* saveFile
saveFile ==
    LET filename == selectedFile.filename
        entry == findEntryByPath(fileEntries, filename)
        h == entry.handle
        created == <<Call("createWritable", h)>>
        written == Append(created, Call("write", h))
        closed == Append(written, Call("close", h))
    IN /\ HasRoom
       /\ UNCHANGED <<fileEntries, gitignorePatterns>>
       /\ IF filename = <<>>
          THEN /\ logs' = log("error")
               /\ lastOp' = Op("save", filename, <<>>, "none", FALSE)
               /\ UNCHANGED <<selectedFile, editedFiles, disk>>
          ELSE IF entry = Null \/ entry.type # "file"
          THEN /\ logs' = log("error")
               /\ lastOp' = Op("save", filename, <<>>, "none", FALSE)
               /\ UNCHANGED <<selectedFile, editedFiles, disk>>
          ELSE \E fault \in {"none", "createWritable", "write", "close"} :
                 LET thrown == IF h \in DOMAIN disk THEN fault
                               ELSE "createWritable"
                     calls == IF thrown = "createWritable" THEN created
                              ELSE IF thrown = "write" THEN written
                              ELSE closed
                 IN IF Caught(thrown)
                    THEN /\ logs' = logs \o <<"error", "error">>
                         /\ lastOp' = Op("save", filename, calls, thrown,
                                         FALSE)
                         /\ UNCHANGED <<selectedFile, editedFiles, disk>>
                    ELSE /\ disk' = (h :> writtenText) @@ disk
                         /\ selectedFile' =
                                [selectedFile EXCEPT !.isModified = FALSE]
                         /\ editedFiles' =
                                (filename :> savedEdit) @@ editedFiles
                         /\ logs' = log("info")
                         /\ lastOp' = Op("save", filename, calls, thrown,
                                         TRUE)

\* handleAddFile; fileName is what the prompt returns (NoName: nothing).
handleAddFile(fileName) ==
    LET basePath == Front(selectedFile.filename)
        fullPath == Append(basePath, fileName)
        parentEntry == IF basePath # <<>>
                       THEN findEntryByPath(fileEntries, basePath)
                       ELSE Null
        pickerCalls == IF parentEntry # Null THEN <<>>
                       ELSE <<Call("showDirectoryPicker", <<>>)>>
    IN /\ HasRoom
       /\ UNCHANGED <<editedFiles, gitignorePatterns>>
       /\ IF selectedFile.filename = <<>> \/ fileName = NoName
          THEN /\ lastOp' = Op("create", fileName, <<>>, "none", FALSE)
               /\ UNCHANGED <<fileEntries, selectedFile, logs, disk>>
          ELSE IF basePath # <<>>
                  /\ (parentEntry = Null \/ parentEntry.type # "directory")
          THEN /\ logs' = log("error")
               /\ lastOp' = Op("create", fileName, <<>>, "none", FALSE)
               /\ UNCHANGED <<fileEntries, selectedFile, disk>>
          ELSE \E picked \in IF parentEntry = Null THEN PickerResults
                             ELSE {Abort},
                  fault \in {"none", "getFileHandle"} :
                 LET dirHandle == IF parentEntry # Null
                                  THEN parentEntry.handle ELSE <<picked>>
                     fileHandle == Append(dirHandle, fileName)
                     newEntry == FileEntry(fileHandle, fullPath, "file",
                                           fileName, <<>>)
                     got == Append(pickerCalls,
                                   Call("getFileHandle", fileHandle))
                     thrown ==
                         IF parentEntry = Null /\ picked = Abort
                         THEN "showDirectoryPicker"
                         ELSE IF fileHandle \in DiskDirs
                         THEN "getFileHandle"
                         ELSE fault
                 IN IF Caught(thrown)
                    THEN /\ logs' = log("error")
                         /\ lastOp' =
                                Op("create", fileName,
                                   IF thrown = "showDirectoryPicker"
                                   THEN pickerCalls ELSE got,
                                   thrown, FALSE)
                         /\ UNCHANGED <<fileEntries, selectedFile, disk>>
                    ELSE /\ disk' = IF fileHandle \in DOMAIN disk THEN disk
                                    ELSE (fileHandle :> "") @@ disk
                         /\ fileEntries' =
                                IF parentEntry # Null
                                   /\ parentEntry.type = "directory"
                                THEN SetChild(fileEntries, basePath,
                                              <<fileName>>, newEntry)
                                ELSE RecordSet(fileEntries, <<fileName>>,
                                               newEntry)
                         /\ logs' = log("ok")
                         /\ selectedFile' =
                                Select(fullPath,
                                       Buffer("",
                                              getLanguageFromFileName(
                                                  <<fileName>>),
                                              FALSE))
                         /\ lastOp' = Op("create", fileName, got, thrown, TRUE)

\* handleDeleteFile; confirmed is the user's answer to confirm().
handleDeleteFile(confirmed) ==
    LET filename == selectedFile.filename
        entry == findEntryByPath(fileEntries, filename)
        fileName == Last(filename)
        parentPath == Front(filename)
        parentEntry == findEntryByPath(fileEntries, parentPath)
        arg == [filename |-> filename, confirmed |-> confirmed]
    IN /\ HasRoom
       /\ UNCHANGED gitignorePatterns
       /\ IF filename = <<>> \/ ~confirmed
          THEN /\ lastOp' = Op("delete", arg, <<>>, "none", FALSE)
               /\ UNCHANGED <<fileEntries, selectedFile, editedFiles, logs,
                              disk>>
          ELSE IF entry = Null \/ entry.type # "file"
          THEN /\ logs' = log("error")
               /\ lastOp' = Op("delete", arg, <<>>, "none", FALSE)
               /\ UNCHANGED <<fileEntries, selectedFile, editedFiles, disk>>
          ELSE \E fault \in {"none", "remove"} :
                 LET thrown == IF entry.handle \in DOMAIN disk THEN fault
                               ELSE "remove"
                     calls == <<Call("remove", entry.handle)>>
                 IN IF Caught(thrown)
                    THEN /\ logs' = log("error")
                         /\ lastOp' = Op("delete", arg, calls, thrown, FALSE)
                         /\ UNCHANGED <<fileEntries, selectedFile,
                                        editedFiles, disk>>
                    ELSE /\ disk' =
                                [loc \in DOMAIN disk \ {entry.handle} |->
                                    disk[loc]]
                         /\ fileEntries' =
                                IF parentPath # <<>>
                                THEN IF parentEntry # Null
                                        /\ parentEntry.type = "directory"
                                     THEN DeleteChild(fileEntries,
                                                      parentPath,
                                                      <<fileName>>)
                                     ELSE fileEntries
                                ELSE RecordDelete(fileEntries, <<fileName>>)
                         /\ logs' = log("ok")
                         /\ selectedFile' = EmptySelection
                         /\ editedFiles' =
                                [p \in DOMAIN editedFiles \ {filename} |->
                                    editedFiles[p]]
                         /\ lastOp' = Op("delete", arg, calls, thrown, TRUE)

\* deleteEntry of handleMove: removes the first entry, in order, that is
\* stored under the key path; [entries, found].
RECURSIVE deleteEntry(_, _)
deleteEntry(entries, path) ==
    IF entries = <<>> THEN [entries |-> <<>>, found |-> FALSE]
    ELSE LET value == Head(entries)
             sub == IF value.type = "directory"
                    THEN deleteEntry(value.children, path)
                    ELSE [entries |-> <<>>, found |-> FALSE]
             rest == deleteEntry(Tail(entries), path)
         IN IF value.key = path
            THEN [entries |-> Tail(entries), found |-> TRUE]
            ELSE IF sub.found
            THEN [entries |->
                      <<[value EXCEPT !.children = sub.entries]>>
                      \o Tail(entries),
                  found |-> TRUE]
            ELSE [entries |-> <<value>> \o rest.entries,
                  found |-> rest.found]

MoveFaults ==
    {"none", "getFile", "getFileHandle", "createWritable", "write", "close",
     "removeEntry"}

\* handleMove past its checks of the arguments: the copy, the removal of the
\* original and the rebuilt tree.  fault names the capability call that
\* throws, if any.
moveFile(dragId, parentId, picked, fault) ==
    LET sourceEntry == findEntryByPath(fileEntries, dragId)
        targetEntry == IF parentId # <<>>
                       THEN findEntryByPath(fileEntries, parentId)
                       ELSE Null
        newName == sourceEntry.name
        newPath == Append(parentId, newName)
        targetDirHandle == IF targetEntry # Null THEN targetEntry.handle
                           ELSE <<picked>>
        newFileHandle == Append(targetDirHandle, newName)
        parentPath == Front(dragId)
        parentDir == findEntryByPath(fileEntries, parentPath)
        removes == parentDir # Null /\ parentDir.type = "directory"
        removed == Append(parentDir.handle, newName)
        content == disk[sourceEntry.handle]
        read == <<Call("getFile", sourceEntry.handle)>>
        pickerCalls == IF targetEntry # Null THEN read
                       ELSE Append(read, Call("showDirectoryPicker", <<>>))
        got == Append(pickerCalls, Call("getFileHandle", newFileHandle))
        created == Append(got, Call("createWritable", newFileHandle))
        written == Append(created, Call("write", newFileHandle))
        closed == Append(written, Call("close", newFileHandle))
        all == IF removes THEN Append(closed, Call("removeEntry", removed))
               ELSE closed
        touched == IF newFileHandle \in DOMAIN disk THEN disk
                   ELSE (newFileHandle :> "") @@ disk
        copied == (newFileHandle :> content) @@ disk
        cloned == deleteEntry(fileEntries, dragId).entries
        newEntry == FileEntry(newFileHandle, newPath, "file", newName, <<>>)
        target == IF parentId # <<>> THEN findEntryByPath(cloned, parentId)
                  ELSE Null
        arg == <<dragId, parentId>>
        thrown ==
            IF sourceEntry.handle \notin DOMAIN disk \/ fault = "getFile"
            THEN "getFile"
            ELSE IF targetEntry = Null /\ picked = Abort
            THEN "showDirectoryPicker"
            ELSE IF newFileHandle \in DiskDirs THEN "getFileHandle"
            ELSE IF fault = "removeEntry"
            THEN IF removes THEN fault ELSE "none"
            ELSE IF fault = "none" /\ removes /\ removed \notin DOMAIN copied
            THEN "removeEntry"
            ELSE fault
        calls ==
            CASE thrown = "getFile" -> read
              [] thrown = "showDirectoryPicker" -> pickerCalls
              [] thrown = "getFileHandle" -> got
              [] thrown = "createWritable" -> created
              [] thrown = "write" -> written
              [] thrown = "close" -> closed
              [] OTHER -> all
    IN IF Caught(thrown)
       THEN /\ logs' = logs \o <<"info", "error">>
            /\ disk' = IF thrown \in {"createWritable", "write", "close"}
                       THEN touched
                       ELSE IF thrown = "removeEntry" THEN copied
                       ELSE disk
            /\ lastOp' = Op("move", arg, calls, thrown, FALSE)
            /\ UNCHANGED <<fileEntries, selectedFile>>
       ELSE /\ disk' =
                   IF removes
                   THEN [loc \in DOMAIN copied \ {removed} |-> copied[loc]]
                   ELSE copied
            /\ fileEntries' =
                   IF target # Null /\ target.type = "directory"
                   THEN SetChild(cloned, parentId, <<newName>>, newEntry)
                   ELSE RecordSet(cloned, <<newName>>, newEntry)
            /\ selectedFile' =
                   IF selectedFile.filename = dragId
                   THEN [selectedFile EXCEPT !.filename = newPath]
                   ELSE selectedFile
            /\ logs' = logs \o <<"info", "ok">>
            /\ lastOp' = Op("move", arg, calls, thrown, TRUE)

\* handleMove that rejects bad arguments without reporting them.
handleMoveSilent(dragId, parentId) ==
    LET sourceEntry == findEntryByPath(fileEntries, dragId)
        targetEntry == IF parentId # <<>>
                       THEN findEntryByPath(fileEntries, parentId)
                       ELSE Null
    IN /\ HasRoom
       /\ UNCHANGED <<editedFiles, gitignorePatterns>>
       /\ IF \/ sourceEntry = Null \/ sourceEntry.type # "file"
             \/ parentId # <<>>
                /\ (targetEntry = Null \/ targetEntry.type # "directory")
             \/ Append(parentId, sourceEntry.name) = dragId
          THEN /\ logs' = log("info")
               /\ lastOp' = Op("move", <<dragId, parentId>>, <<>>, "none",
                               FALSE)
               /\ UNCHANGED <<fileEntries, selectedFile, disk>>
          ELSE \E picked \in IF targetEntry = Null THEN PickerResults
                             ELSE {Abort},
                  fault \in MoveFaults :
                 moveFile(dragId, parentId, picked, fault)

\* handleMove(dragIds, parentId, index) with dragIds = [dragId]; parentId is
\* <<>> for null.
handleMove(dragId, parentId) ==
    LET sourceEntry == findEntryByPath(fileEntries, dragId)
        targetEntry == IF parentId # <<>>
                       THEN findEntryByPath(fileEntries, parentId)
                       ELSE Null
    IN /\ HasRoom
       /\ UNCHANGED <<editedFiles, gitignorePatterns>>
       /\ IF sourceEntry = Null \/ sourceEntry.type # "file"
          THEN /\ logs' = logs \o <<"info", "error">>
               /\ lastOp' = Op("move", <<dragId, parentId>>, <<>>, "none",
                               FALSE)
               /\ UNCHANGED <<fileEntries, selectedFile, disk>>
          ELSE IF parentId # <<>>
                  /\ (targetEntry = Null \/ targetEntry.type # "directory")
          THEN /\ logs' = logs \o <<"info", "error">>
               /\ lastOp' = Op("move", <<dragId, parentId>>, <<>>, "none",
                               FALSE)
               /\ UNCHANGED <<fileEntries, selectedFile, disk>>
          ELSE IF Append(parentId, sourceEntry.name) = dragId
          THEN /\ logs' = log("info")
               /\ lastOp' = Op("move", <<dragId, parentId>>, <<>>, "none",
                               FALSE)
               /\ UNCHANGED <<fileEntries, selectedFile, disk>>
          ELSE \E picked \in IF targetEntry = Null THEN PickerResults
                             ELSE {Abort},
                  fault \in MoveFaults :
                 moveFile(dragId, parentId, picked, fault)

Paths ==
    {<<NameA>>, <<NameB>>, <<DirD>>, <<DirD, NameA>>, <<DirD, NameB>>,
     <<DirE>>, <<DirE, NameA>>, <<DirE, NameB>>}

\* The parents a drop can name: the root (null), a directory, a file.
ParentIds == {<<>>, <<DirD>>, <<DirE>>, <<NameA>>}

\* Every handler runs to its end before the next one starts: none is left
\* suspended, and nothing is rendered or classified in between.
Whole == UNCHANGED <<pending, input, output, keyCommand>>

Next ==
    \/ \E picked \in PickerResults, reversed \in ListingOrders :
           handleDirectoryPick(picked, reversed) /\ Whole
    \/ \E value \in EditorValues : handleEditorChange(value) /\ Whole
    \/ \E path \in Paths : loadFile(path) /\ Whole
    \/ saveFile /\ Whole
    \/ \E fileName \in FileNames \cup {NoName} :
           handleAddFile(fileName) /\ Whole
    \/ \E confirmed \in BOOLEAN : handleDeleteFile(confirmed) /\ Whole
    \/ \E dragId \in Paths, parentId \in ParentIds :
           handleMove(dragId, parentId) /\ Whole

Spec == Init /\ [][Next]_vars

\* ------------------------------------------- tree presentation adapter
\* a.name.localeCompare(b.name) for the names of this model: negative when a
\* sorts first.  LocaleOrder lists the names as the collation orders them.
NameGo == <<"go">>
LocaleOrder ==
    <<DirHidden, GitignoreName, NameA, NameB, DirD, DirE, NameGo>>
LocaleRank(name) ==
    CHOOSE i \in 1..Len(LocaleOrder) : LocaleOrder[i] = name
localeCompare(a, b) == LocaleRank(a) - LocaleRank(b)

\* The comparator that looks at the names only.
compareByNameOnly(a, b) == localeCompare(a.name, b.name)

\* The comparator handed to sort().
compareEntries(a, b) ==
    IF a.type # b.type
    THEN IF a.type = "directory" THEN -1 ELSE 1
    ELSE localeCompare(a.name, b.name)

\* Array.prototype.sort is stable: x goes after every element that does not
\* sort after it.
RECURSIVE Insert(_, _)
Insert(x, sorted) ==
    IF sorted = <<>> THEN <<x>>
    ELSE IF compareEntries(Head(sorted), x) <= 0
    THEN <<Head(sorted)>> \o Insert(x, Tail(sorted))
    ELSE <<x>> \o sorted

RECURSIVE sortEntries(_)
sortEntries(entries) ==
    IF entries = <<>> THEN <<>>
    ELSE Insert(entries[Len(entries)], sortEntries(Front(entries)))

TreeNode(entry, children) ==
    [id |-> entry.path, name |-> entry.name, type |-> entry.type,
     children |-> children]

\* The test that finds no directory empty.
NoChildrenNever(children) == FALSE

\* if (children.length === 0) return null
NoChildren(children) == Len(children) = 0

\* buildTree of convertToTreeData, and .map(buildTree).filter(not null).
RECURSIVE buildTree(_), buildNodes(_)
buildTree(entry) ==
    IF entry.type = "directory"
    THEN LET children == buildNodes(sortEntries(entry.children))
         IN IF NoChildren(children) THEN Null
            ELSE TreeNode(entry, children)
    ELSE IF entry.type = "file" THEN TreeNode(entry, <<>>)
    ELSE Null

buildNodes(entries) ==
    IF entries = <<>> THEN <<>>
    ELSE LET node == buildTree(Head(entries))
         IN (IF node = Null THEN <<>> ELSE <<node>>)
            \o buildNodes(Tail(entries))

\* !entry.path.includes("/")
IsRootLevel(entry) == Len(entry.path) <= 1

convertToTreeData(entries) ==
    buildNodes(sortEntries(SelectSeq(entries, IsRootLevel)))

\* The lists of siblings of a tree data: the nodes the tree component shows.
Range(seq) == {seq[i] : i \in 1..Len(seq)}
RECURSIVE TreeLevels(_)
TreeLevels(nodes) ==
    {nodes} \cup UNION {TreeLevels(n.children) : n \in Range(nodes)}

\* ------------------------------------------------------ pure functions
\* The trees a scan can return for a root that holds the files a.ts and
\* b.py, a directory e that is empty or holds a.ts, and a directory d
\* nested MaxDepth deep, at most two entries to a directory, in either
\* listing order.
RECURSIVE EntryChoices(_, _), RecordChoices(_, _)
EntryChoices(path, depth) ==
    LET at(name) == Append(path, name)
        handle(name) == <<RootR>> \o at(name)
        inE == FileEntry(handle(DirE) \o <<NameA>>, Append(at(DirE), NameA),
                         "file", NameA, <<>>)
    IN {FileEntry(handle(n), at(n), "file", n, <<>>) : n \in FileNames}
       \cup {FileEntry(handle(DirE), at(DirE), "directory", DirE, c) :
                c \in {<<>>, <<inE>>}}
       \cup {FileEntry(handle(DirD), at(DirD), "directory", DirD, c) :
                c \in IF depth = 0 THEN {<<>>}
                      ELSE RecordChoices(at(DirD), depth - 1)}

RecordChoices(path, depth) ==
    LET E == EntryChoices(path, depth)
    IN {<<>>} \cup {<<e>> : e \in E}
       \cup UNION {{<<e1, e2>> : e2 \in {e \in E : e.name # e1.name}} :
                     e1 \in E}

ScannedTrees == RecordChoices(<<>>, MaxDepth)

\* The file names handed to the classifier: known, unknown, upper-case and
\* missing extensions, a name with two dots, a name that starts with a dot.
ClassifierInputs ==
    {NameA, NameB, NameGo, <<"a", "TS">>, <<"a", "bin">>, <<"readme">>,
     <<"a", "tar", "rs">>, GitignoreName}

\* The component displays one of the trees; then it is asked for the tree
\* data of it (render), or for the language of a file name (classify).
PureInit ==
    /\ fileEntries \in ScannedTrees
    /\ selectedFile = EmptySelection
    /\ editedFiles = <<>>
    /\ gitignorePatterns = <<>>
    /\ logs = <<>>
    /\ disk = InitialDisk
    /\ lastOp = Op("init", <<>>, <<>>, "none", TRUE)
    /\ pending = <<>>
    /\ input \in ClassifierInputs
    /\ output = Null
    /\ keyCommand = Null

render ==
    /\ output' = [of |-> "convertToTreeData",
                  value |-> convertToTreeData(fileEntries)]
    /\ lastOp' = Op("render", <<>>, <<>>, "none", TRUE)
    /\ UNCHANGED <<fileEntries, selectedFile, editedFiles, gitignorePatterns,
                   logs, disk, pending, input, keyCommand>>

classify ==
    /\ output' = [of |-> "getLanguageFromFileName",
                  value |-> getLanguageFromFileName(<<input>>)]
    /\ lastOp' = Op("classify", input, <<>>, "none", TRUE)
    /\ UNCHANGED <<fileEntries, selectedFile, editedFiles, gitignorePatterns,
                   logs, disk, pending, input, keyCommand>>

PureNext == render \/ classify

PureSpec == PureInit /\ [][PureNext]_vars

\* ------------------------------------------------- suspended handlers
\* A handler that reaches an await is suspended; it goes on when the
\* capability call resolves, with the selectedFile, editedFiles and isIgnored
\* of the render in which it was started.  Nothing in the component keeps
\* the user from starting handlers meanwhile: the pick button is always
\* enabled (lines 972-978), a click on a file node of the tree always loads
\* it (lines 1032-1039), the save button is enabled whenever the Selection
\* is modified (line 985), the editor is never read-only (line 1090).
\*
\* Each handler is cut once, after its synchronous checks: its reads of the
\* directory are taken when it starts, its reads and writes of file content
\* and all its state updates when it ends.
\* What the user types while a handler is suspended.
LaterValue == "z"

Suspended(name, arg, handle, entries, patterns) ==
    [name |-> name, arg |-> arg, handle |-> handle,
     selectedFile |-> selectedFile, editedFiles |-> editedFiles,
     entries |-> entries, patterns |-> patterns]

CanSuspend ==
    /\ Len(pending) < MaxPending
    /\ Len(logs) + Len(pending) < MaxLog

Without(seq, i) == SubSeq(seq, 1, i - 1) \o SubSeq(seq, i + 1, Len(seq))

\* The handlers of that name started before (after) the i-th and still
\* suspended.
Older(i) ==
    {pending[j] : j \in {k \in 1..(i - 1) : pending[k].name = pending[i].name}}
Newer(i) ==
    {pending[j] :
        j \in {k \in (i + 1)..Len(pending) : pending[k].name = pending[i].name}}
Ended(i) == [op |-> pending[i], older |-> Older(i), newer |-> Newer(i)]

\* handleDirectoryPick up to the end of its scan: the picker has returned
\* picked, the directory has been listed.
handleDirectoryPickBegin(picked) ==
    LET handle == <<picked>>
        names == Listing(handle, FALSE)
        loaded == loadGitignore(handle, gitignorePatterns)
    IN /\ CanSuspend
       /\ logs' = log("ok")
       /\ pending' =
              Append(pending,
                     Suspended("pick", picked, handle,
                               scanDirectory(handle, <<>>, FALSE, NoFault),
                               scanGitignore(handle, <<>>, names, FALSE,
                                             NoFault, loaded)))
       /\ lastOp' = Op("pickBegin", picked, <<>>, "none", TRUE)
       /\ UNCHANGED <<fileEntries, selectedFile, editedFiles,
                      gitignorePatterns, disk, input, output, keyCommand>>

\* handleDirectoryPick from setFileEntries(entries) on.
handleDirectoryPickEnd(i) ==
    /\ pending[i].name = "pick"
    /\ fileEntries' = pending[i].entries
    /\ gitignorePatterns' = pending[i].patterns
    /\ pending' = Without(pending, i)
    /\ lastOp' = Op("pickEnd", Ended(i), <<>>, "none", TRUE)
    /\ UNCHANGED <<selectedFile, editedFiles, logs, disk, input, output,
                   keyCommand>>

\* handleNodeClick(node) for the node with this id, and loadFile up to its
\* await of getFile().
handleNodeClick(id) ==
    LET entry == findEntryByPath(fileEntries, id)
        path == entry.path
    IN /\ \E n \in UNION {{node \in Range(level) : node.type = "file"} :
                            level \in TreeLevels(convertToTreeData(fileEntries))} :
             n.id = id
       /\ entry # Null /\ entry.type = "file"
       /\ CanSuspend
       /\ UNCHANGED <<fileEntries, editedFiles, gitignorePatterns, disk,
                      input, output, keyCommand>>
       /\ IF hasEditedFile(path)
          THEN /\ selectedFile' = Select(path, editedFiles[path])
               /\ logs' = log("info")
               /\ lastOp' = Op("load", path, <<>>, "none", TRUE)
               /\ UNCHANGED pending
          ELSE /\ pending' =
                      Append(pending,
                             Suspended("load", path, entry.handle, <<>>,
                                       <<>>))
               /\ lastOp' = Op("loadBegin", path, <<>>, "none", TRUE)
               /\ UNCHANGED <<selectedFile, logs>>

\* loadFile from the resolution of getFile() on.
loadFileEnd(i) ==
    LET op == pending[i]
        calls == <<Call("getFile", op.handle)>>
    IN /\ op.name = "load"
       /\ pending' = Without(pending, i)
       /\ UNCHANGED <<fileEntries, editedFiles, gitignorePatterns, disk,
                      input, output, keyCommand>>
       /\ IF op.handle \notin DOMAIN disk
          THEN /\ logs' = log("error")
               /\ lastOp' = Op("loadEnd", Ended(i), calls, "getFile", FALSE)
               /\ UNCHANGED selectedFile
          ELSE /\ selectedFile' =
                      Select(op.arg,
                             Buffer(disk[op.handle],
                                    getLanguageFromFileName(op.arg), FALSE))
               /\ logs' = log("info")
               /\ lastOp' = Op("loadEnd", Ended(i), calls, "none", TRUE)

\* A click on the save button, and saveFile up to its await of
\* createWritable().
saveFileBegin ==
    LET filename == selectedFile.filename
        entry == findEntryByPath(fileEntries, filename)
    IN /\ fileEntries # <<>>
       /\ selectedFile.isModified
       /\ CanSuspend
       /\ UNCHANGED <<fileEntries, selectedFile, editedFiles,
                      gitignorePatterns, disk, input, output, keyCommand>>
       /\ IF filename = <<>> \/ entry = Null \/ entry.type # "file"
          THEN /\ logs' = log("error")
               /\ lastOp' = Op("save", filename, <<>>, "none", FALSE)
               /\ UNCHANGED pending
          ELSE /\ pending' =
                      Append(pending,
                             Suspended("save", filename, entry.handle, <<>>,
                                       <<>>))
               /\ lastOp' = Op("saveBegin", filename, <<>>, "none", TRUE)
               /\ UNCHANGED logs

\* saveFile from the resolution of createWritable() on: the write, the
\* close, the state updates.
saveFileEnd(i) ==
    LET op == pending[i]
        h == op.handle
        calls == <<Call("createWritable", h), Call("write", h),
                   Call("close", h)>>
    IN /\ op.name = "save"
       /\ pending' = Without(pending, i)
       /\ UNCHANGED <<fileEntries, gitignorePatterns, input, output,
                      keyCommand>>
       /\ IF h \notin DOMAIN disk
          THEN /\ logs' = logs \o <<"error", "error">>
               /\ lastOp' = Op("saveEnd", Ended(i), <<calls[1]>>,
                               "createWritable", FALSE)
               /\ UNCHANGED <<selectedFile, editedFiles, disk>>
          ELSE /\ disk' = (h :> op.selectedFile.code) @@ disk
               /\ selectedFile' =
                      [op.selectedFile EXCEPT !.isModified = FALSE]
               /\ editedFiles' =
                      (op.arg :> Buffer(op.selectedFile.code,
                                        op.selectedFile.language, FALSE))
                      @@ op.editedFiles
               /\ logs' = log("info")
               /\ lastOp' = Op("saveEnd", Ended(i), calls, "none", TRUE)

AsyncNext ==
    \/ \E picked \in Roots : handleDirectoryPickBegin(picked)
    \/ \E i \in 1..Len(pending) : handleDirectoryPickEnd(i)
    \/ \E id \in Paths : handleNodeClick(id)
    \/ \E i \in 1..Len(pending) : loadFileEnd(i)
    \/ \E value \in EditorValues \cup {LaterValue} :
           handleEditorChange(value) /\ Whole
    \/ saveFileBegin
    \/ \E i \in 1..Len(pending) : saveFileEnd(i)

AsyncSpec == Init /\ [][AsyncNext]_vars

\* ---------------------------------------------- the editor's key command
\* The Editor element is part of every render (lines 1067-1113).  Its
\* onMount runs once, when the editor has been created; the function that
\* editor.addCommand registers there is the one of the render that mounted
\* the editor, and so are the selectedFile it tests and the saveFile it
\* calls (with that render's selectedFile, fileEntries and editedFiles).
\* Before the editor is mounted it emits no change event.
onMount ==
    /\ keyCommand = Null
    /\ keyCommand' = [type |-> "command", selectedFile |-> selectedFile,
                      fileEntries |-> fileEntries,
                      editedFiles |-> editedFiles]
    /\ lastOp' = Op("mount", <<>>, <<>>, "none", TRUE)
    /\ UNCHANGED <<fileEntries, selectedFile, editedFiles, gitignorePatterns,
                   logs, disk, pending, input, output>>

\* Ctrl/Cmd+S in the editor: the registered function, and the saveFile it
\* calls.
keyCommandRun ==
    LET c == keyCommand
        filename == c.selectedFile.filename
        entry == findEntryByPath(c.fileEntries, filename)
        h == entry.handle
        arg(invoked) == [invoked |-> invoked, selectedFile |-> c.selectedFile]
        calls == <<Call("createWritable", h), Call("write", h),
                   Call("close", h)>>
    IN /\ keyCommand # Null
       /\ HasRoom
       /\ UNCHANGED <<fileEntries, gitignorePatterns, pending, input, output,
                      keyCommand>>
       /\ IF ~c.selectedFile.isModified
          THEN /\ lastOp' = Op("ctrlS", arg(FALSE), <<>>, "none", FALSE)
               /\ UNCHANGED <<selectedFile, editedFiles, logs, disk>>
          ELSE IF filename = <<>> \/ entry = Null \/ entry.type # "file"
          THEN /\ logs' = log("error")
               /\ lastOp' = Op("ctrlS", arg(TRUE), <<>>, "none", FALSE)
               /\ UNCHANGED <<selectedFile, editedFiles, disk>>
          ELSE IF h \notin DOMAIN disk
          THEN /\ logs' = logs \o <<"error", "error">>
               /\ lastOp' = Op("ctrlS", arg(TRUE), <<calls[1]>>,
                               "createWritable", FALSE)
               /\ UNCHANGED <<selectedFile, editedFiles, disk>>
          ELSE /\ disk' = (h :> c.selectedFile.code) @@ disk
               /\ selectedFile' = [c.selectedFile EXCEPT !.isModified = FALSE]
               /\ editedFiles' =
                      (filename :> Buffer(c.selectedFile.code,
                                          c.selectedFile.language, FALSE))
                      @@ c.editedFiles
               /\ logs' = log("info")
               /\ lastOp' = Op("ctrlS", arg(TRUE), calls, "none", TRUE)

KeyNext ==
    \/ \E picked \in Roots : handleDirectoryPick(picked, FALSE) /\ Whole
    \/ \E path \in Paths : loadFile(path) /\ Whole
    \/ \E value \in EditorValues :
           keyCommand # Null /\ handleEditorChange(value) /\ Whole
    \/ saveFile /\ Whole
    \/ onMount
    \/ keyCommandRun

KeySpec == Init /\ [][KeyNext]_vars

\* ============================================================== claims
\* The entry the Selection resolves to, and the text its file holds.
SelectedEntry == findEntryByPath(fileEntries, selectedFile.filename)
ErrorAppended ==
    /\ Len(logs') > Len(logs)
    /\ SubSeq(logs', 1, Len(logs)) = logs
    /\ \E i \in (Len(logs) + 1)..Len(logs') : logs'[i] = "error"
PathsOf(entries) == {e.path : e \in AllEntries(entries)}
\* The tree holds a file entry with this path, at some depth.
FileEntryAt(path) ==
    \E e \in AllEntries(fileEntries) : e.path = path /\ e.type = "file"

\* C1: load(p) of a path that has an entry in the EditBuffer store sets the
\* Selection to exactly that entry under p and issues no capability call
\* (disk and store untouched); updateCode(x) stores x for the selected path
\* and no load changes the store, so that updateCode(x) on A, load(B),
\* load(A) ends with Selection.code = x whatever A holds on disk.
C1_LoadRestoresPendingEdit ==
    [][/\ (lastOp'.name = "load" /\ lastOp'.arg \in DOMAIN editedFiles)
          => /\ selectedFile' = Select(lastOp'.arg, editedFiles[lastOp'.arg])
             /\ lastOp'.calls = <<>>
             /\ disk' = disk
       /\ lastOp'.name = "load" => editedFiles' = editedFiles
       /\ lastOp'.name = "updateCode"
          => /\ selectedFile.filename \in DOMAIN editedFiles'
             /\ editedFiles'[selectedFile.filename].code = lastOp'.arg
    ]_vars

\* C1 witness: a load has restored the unsaved text "x" of a file whose
\* content on disk is another text.
C1_Witness ==
    /\ lastOp.name = "load" /\ lastOp.ok /\ lastOp.calls = <<>>
    /\ selectedFile.filename = lastOp.arg
    /\ selectedFile.isModified /\ selectedFile.code = "x"
    /\ SelectedEntry # Null
    /\ SelectedEntry.handle \in DOMAIN disk
    /\ disk[SelectedEntry.handle] # "x"

\* C2 (as claimed): a load of a file entry p without an entry in the store,
\* whose read succeeds, sets Selection to {p, disk content, classify(p),
\* false} and leaves in the store an entry for p with that code, language
\* and isModified = false.
C2_LoadPersistsFreshBuffer ==
    [][(lastOp'.name = "load" /\ lastOp'.ok
        /\ lastOp'.arg \notin DOMAIN editedFiles)
       => LET p == lastOp'.arg
              fresh == Buffer(disk[findEntryByPath(fileEntries, p).handle],
                              getLanguageFromFileName(p), FALSE)
          IN /\ selectedFile' = Select(p, fresh)
             /\ p \in DOMAIN editedFiles'
             /\ editedFiles'[p] = fresh
    ]_vars

\* C3 (as claimed): whenever Selection.path is non-empty and the store has
\* an entry for it, that entry's code and isModified are the Selection's.
C3_SelectionMatchesStore ==
    (selectedFile.filename # <<>>
     /\ selectedFile.filename \in DOMAIN editedFiles)
    => /\ editedFiles[selectedFile.filename].code = selectedFile.code
       /\ editedFiles[selectedFile.filename].isModified
          = selectedFile.isModified

\* C4: a save whose path resolves to a file entry and whose createWritable,
\* write and close succeed leaves on disk, in the file of that entry, the
\* Selection.code of the moment save was invoked, and isModified = false on
\* the Selection and on the stored buffer of that path.
C4_SaveWritesAndCleans ==
    [][(lastOp'.name = "save" /\ SelectedEntry # Null
        /\ SelectedEntry.type = "file" /\ lastOp'.calls # <<>>
        /\ lastOp'.threw = "none")
       => /\ disk'[SelectedEntry.handle] = selectedFile.code
          /\ selectedFile'.code = selectedFile.code
          /\ selectedFile'.filename = selectedFile.filename
          /\ ~selectedFile'.isModified
          /\ selectedFile.filename \in DOMAIN editedFiles'
          /\ ~editedFiles'[selectedFile.filename].isModified
          /\ editedFiles'[selectedFile.filename].code = selectedFile.code
    ]_vars

\* C4 witness: a save has replaced the content of the selected file by the
\* edited text.
C4_Witness ==
    /\ lastOp.name = "save" /\ lastOp.ok
    /\ selectedFile.code = "x" /\ ~selectedFile.isModified
    /\ disk[SelectedEntry.handle] = "x"

\* C5: when createWritable, write or close throws during save, the Selection
\* (code and isModified) and the store are left as they were and an error
\* entry is appended to the log.
C5_FailedSaveKeepsModified ==
    [][(lastOp'.name = "save"
        /\ lastOp'.threw \in {"createWritable", "write", "close"})
       => /\ selectedFile' = selectedFile
          /\ editedFiles' = editedFiles
          /\ ErrorAppended
    ]_vars

\* C5 witness: the write of a modified buffer has failed and the buffer is
\* still marked modified, in the Selection and in the store.
C5_Witness ==
    /\ lastOp.name = "save" /\ lastOp.threw = "write"
    /\ selectedFile.isModified
    /\ selectedFile.filename \in DOMAIN editedFiles
    /\ editedFiles[selectedFile.filename].isModified
    /\ logs[Len(logs)] = "error"

\* C6: a save with an empty Selection.path, or with one that does not
\* resolve to a file entry of the tree, issues no capability call, appends
\* an error entry to the log and leaves tree, Selection, store and disk
\* unchanged.
C6_SaveWithoutTarget ==
    [][(lastOp'.name = "save"
        /\ (selectedFile.filename = <<>>
            \/ ~FileEntryAt(selectedFile.filename)))
       => /\ lastOp'.calls = <<>>
          /\ ErrorAppended
          /\ UNCHANGED <<fileEntries, selectedFile, editedFiles, disk>>
    ]_vars

\* C6 witness: save was invoked for a selected path that the tree no longer
\* holds, and reported it.
C6_Witness ==
    /\ lastOp.name = "save" /\ lastOp.calls = <<>> /\ ~lastOp.ok
    /\ selectedFile.filename # <<>>
    /\ ~FileEntryAt(selectedFile.filename)
    /\ fileEntries # <<>>
    /\ logs[Len(logs)] = "error"

\* C7: a load of the path that the step before saved successfully yields
\* the saved code (which is the content of the file) and isModified = false.
C7_SaveLoadRoundTrip ==
    [][(lastOp.name = "save" /\ lastOp.ok /\ lastOp'.name = "load"
        /\ lastOp'.arg = lastOp.arg)
       => /\ selectedFile'.filename = lastOp.arg
          /\ selectedFile'.code = selectedFile.code
          /\ selectedFile'.code = disk[SelectedEntry.handle]
          /\ ~selectedFile'.isModified
    ]_vars

\* C7 witness: a load has restored, unmodified, the text "x" that a save
\* put in the store and on disk.
C7_Witness ==
    /\ lastOp.name = "load" /\ lastOp.ok
    /\ selectedFile.filename = lastOp.arg
    /\ selectedFile.code = "x" /\ ~selectedFile.isModified
    /\ lastOp.arg \in DOMAIN editedFiles
    /\ SelectedEntry # Null
    /\ disk[SelectedEntry.handle] = "x"

\* C8: updateCode(x) leaves Selection.code = x and isModified = true,
\* mirrored in the store, and a second updateCode(x) right after it changes
\* neither the Selection nor the store.
C8_UpdateCodeIdempotent ==
    [][/\ lastOp'.name = "updateCode"
          => /\ selectedFile'.code = lastOp'.arg
             /\ selectedFile'.isModified
             /\ selectedFile'.filename = selectedFile.filename
             /\ selectedFile.filename \in DOMAIN editedFiles'
             /\ editedFiles'[selectedFile.filename]
                = Buffer(lastOp'.arg, selectedFile.language, TRUE)
       /\ (lastOp.name = "updateCode" /\ lastOp'.name = "updateCode"
           /\ lastOp'.arg = lastOp.arg)
          => /\ selectedFile' = selectedFile
             /\ editedFiles' = editedFiles
    ]_vars

\* C8 witness: the text "x" has been typed into a selected file.
C8_Witness ==
    /\ lastOp.name = "updateCode" /\ lastOp.arg = "x"
    /\ selectedFile.filename # <<>>
    /\ SelectedEntry # Null
    /\ selectedFile.code = "x" /\ selectedFile.isModified

\* C9 (as claimed): after a delete that succeeded, the tree holds no entry
\* with the deleted path, the store has no entry for it and the Selection
\* is empty.
C9_DeleteRemovesEntry ==
    [][(lastOp'.name = "delete" /\ lastOp'.ok)
       => /\ selectedFile.filename \notin PathsOf(fileEntries')
          /\ selectedFile.filename \notin DOMAIN editedFiles'
          /\ selectedFile' = EmptySelection
    ]_vars

\* C10: a delete of a non-empty selected path, confirmed by the user, that
\* does not resolve to a file entry, or whose remove() throws, leaves tree,
\* Selection, store and disk unchanged and appends an error entry to the
\* log.
C10_FailedDeleteChangesNothing ==
    [][(lastOp'.name = "delete" /\ lastOp'.arg.confirmed
        /\ selectedFile.filename # <<>>
        /\ (~FileEntryAt(selectedFile.filename)
            \/ lastOp'.threw = "remove"))
       => /\ UNCHANGED <<fileEntries, selectedFile, editedFiles, disk>>
          /\ ErrorAppended
    ]_vars

\* C10 witness: a confirmed delete of a selected path that the tree no
\* longer holds has been reported.
C10_Witness ==
    /\ lastOp.name = "delete" /\ lastOp.arg.confirmed /\ ~lastOp.ok
    /\ selectedFile.filename # <<>>
    /\ ~FileEntryAt(selectedFile.filename)
    /\ logs[Len(logs)] = "error"

\* The tree entries holds a file (a directory) entry with this path.
FileEntryIn(entries, path) ==
    \E e \in AllEntries(entries) : e.path = path /\ e.type = "file"
DirEntryAt(path) ==
    \E e \in AllEntries(fileEntries) : e.path = path /\ e.type = "directory"

\* C11 (as claimed): after a successful move(from, toParent) into a
\* directory, the tree holds a file entry at toParent/name and no entry at
\* from, and a Selection that was on from is on the new path, its code,
\* language and isModified unchanged.
C11_MoveRelocatesEntry ==
    [][(lastOp'.name = "move" /\ lastOp'.ok /\ lastOp'.arg[2] # <<>>)
       => LET from == lastOp'.arg[1]
              newPath == Append(lastOp'.arg[2], Last(from))
          IN /\ FileEntryIn(fileEntries', newPath)
             /\ from \notin PathsOf(fileEntries')
             /\ selectedFile.filename = from
                => selectedFile' = [selectedFile EXCEPT !.filename = newPath]
    ]_vars

\* C12 (as claimed): after a move that reports success, the file of the new
\* entry holds what the source file held, and the source file is no longer
\* on the disk.
C12_MoveCopiesThenRemoves ==
    [][(lastOp'.name = "move" /\ lastOp'.ok)
       => LET from == lastOp'.arg[1]
              newPath == Append(lastOp'.arg[2], Last(from))
              source == findEntryByPath(fileEntries, from).handle
          IN /\ \E e \in AllEntries(fileEntries') :
                   /\ e.path = newPath
                   /\ e.handle \in DOMAIN disk'
                   /\ disk'[e.handle] = disk[source]
             /\ source \notin DOMAIN disk'
    ]_vars

\* C13: a move whose source path is not the path of a file entry, or whose
\* non-empty target path is not the path of a directory entry, issues no
\* capability call, appends an error entry to the log and leaves tree,
\* Selection, store and disk unchanged.
C13_MoveRejectsBadArguments ==
    [][(lastOp'.name = "move"
        /\ (\/ ~FileEntryAt(lastOp'.arg[1])
            \/ lastOp'.arg[2] # <<>> /\ ~DirEntryAt(lastOp'.arg[2])))
       => /\ lastOp'.calls = <<>>
          /\ ErrorAppended
          /\ UNCHANGED <<fileEntries, selectedFile, editedFiles, disk>>
    ]_vars

\* C13 witness: a file of the tree was dropped on another file of the tree
\* and the move was refused with an error.
C13_Witness ==
    /\ lastOp.name = "move" /\ ~lastOp.ok /\ lastOp.calls = <<>>
    /\ FileEntryAt(lastOp.arg[1])
    /\ FileEntryAt(lastOp.arg[2])
    /\ logs[Len(logs)] = "error"

\* The entry with this path is a file entry held directly by the children of
\* the directory entry with path parentPath (by the root entries when
\* parentPath is empty).
IsChildOf(entries, parentPath, path) ==
    LET holds(children) ==
            \E i \in 1..Len(children) :
                children[i].path = path /\ children[i].type = "file"
    IN IF parentPath = <<>> THEN holds(entries)
       ELSE \E dir \in AllEntries(entries) :
               /\ dir.type = "directory"
               /\ dir.path = parentPath
               /\ holds(dir.children)

\* C14: a create that succeeds, for the name n entered while a file of
\* directory b is selected, leaves a file entry with path b/n among the
\* children of the entry of b (the root entries for an empty b), which
\* findEntryByPath resolves to a file entry, and sets Selection to
\* {b/n, "", classify(n), false}; a create whose non-empty b is not the path
\* of a directory entry issues no capability call, appends an error entry to
\* the log and leaves tree, Selection, store and disk unchanged.
C14_CreateInsertsAndSelects ==
    [][LET basePath == Front(selectedFile.filename)
           fileName == lastOp'.arg
           fullPath == Append(basePath, fileName)
       IN /\ (lastOp'.name = "create" /\ lastOp'.ok)
             => /\ IsChildOf(fileEntries', basePath, fullPath)
                /\ findEntryByPath(fileEntries', fullPath) # Null
                /\ findEntryByPath(fileEntries', fullPath).type = "file"
                /\ selectedFile' =
                       Select(fullPath,
                              Buffer("", getLanguageFromFileName(<<fileName>>),
                                     FALSE))
          /\ (lastOp'.name = "create" /\ fileName # NoName
              /\ basePath # <<>> /\ ~DirEntryAt(basePath))
             => /\ lastOp'.calls = <<>>
                /\ ErrorAppended
                /\ UNCHANGED <<fileEntries, selectedFile, editedFiles, disk>>
    ]_vars

\* C14 witness: a file was created inside a sub-directory and is selected
\* with an empty, unmodified buffer.
C14_Witness ==
    /\ lastOp.name = "create" /\ lastOp.ok
    /\ Len(selectedFile.filename) = 2
    /\ Last(selectedFile.filename) = lastOp.arg
    /\ IsChildOf(fileEntries, Front(selectedFile.filename),
                 selectedFile.filename)
    /\ selectedFile.code = "" /\ ~selectedFile.isModified

\* C15 (as claimed): a create invoked with a name while Selection is unset
\* and the tree is empty appends an error entry to the log and leaves the
\* tree unchanged.
C15_CreateWithoutSelectionReports ==
    [][(lastOp'.name = "create" /\ lastOp'.arg # NoName
        /\ selectedFile = EmptySelection /\ fileEntries = <<>>)
       => /\ ErrorAppended
          /\ fileEntries' = fileEntries
    ]_vars

\* The root ignore-file's patterns of the directory a grant returned.
RootPatterns(op) == GitignorePatternsOf(<<op.arg.picked>>)
\* A name that starts with '.'.
Hidden(name) == Head(name) = ""
IsPrefix(s, t) == Len(s) <= Len(t) /\ SubSeq(t, 1, Len(s)) = s

\* C16 (as claimed): after a grant whose scan completed, the committed tree
\* holds no entry whose path matches a pattern of the ignore-file of the
\* granted root.
C16_RootPatternsApplyToSameScan ==
    [][(lastOp'.name = "pick" /\ lastOp'.ok)
       => \A e \in AllEntries(fileEntries') :
             ~Ignores(RootPatterns(lastOp'), e.path)
    ]_vars

\* C17 (as claimed): after a grant whose scan completed, the active rule set
\* holds every pattern of the root's ignore-file, whatever ignore-files of
\* sub-directories were loaded after it.
C17_PatternsAccumulate ==
    [][(lastOp'.name = "pick" /\ lastOp'.ok)
       => \A i \in 1..Len(RootPatterns(lastOp')) :
             \E j \in 1..Len(gitignorePatterns') :
                 gitignorePatterns'[j] = RootPatterns(lastOp')[i]
    ]_vars

\* C18: the tree a completed scan commits holds no entry with a path segment
\* that starts with '.', and no scan, completed or not, lists a directory
\* below the root whose name starts with '.' or whose path isIgnored (over
\* the patterns it sees during that scan) rejects.
C18_ScanSkipsHiddenAndIgnored ==
    [][lastOp'.name = "pick"
       => /\ lastOp'.ok
             => \A e \in AllEntries(fileEntries') :
                   \A i \in 1..Len(e.path) : ~Hidden(e.path[i])
          /\ \A k \in 1..Len(lastOp'.calls) :
                LET path == Tail(lastOp'.calls[k][2])
                IN \/ path = <<>>
                   \/ /\ \A i \in 1..Len(path) : ~Hidden(path[i])
                      /\ ~Ignores(gitignorePatterns, path)
    ]_vars

\* C18 witness: a scan of R has listed d and committed its content while it
\* listed neither the ignored directory e nor the hidden directory.
C18_Witness ==
    /\ lastOp.name = "pick" /\ lastOp.ok /\ lastOp.arg.picked = RootR
    /\ <<DirD>> \in PathsOf(fileEntries)
    /\ <<DirE>> \notin PathsOf(fileEntries)
    /\ \E k \in 1..Len(lastOp.calls) :
          lastOp.calls[k] = Call("entries", <<RootR, DirD>>)
    /\ \A k \in 1..Len(lastOp.calls) :
          lastOp.calls[k][2] \notin {<<RootR, DirE>>, <<RootR, DirHidden>>}

\* C19 (as claimed): a scan during which one read of a file or one listing
\* of a sub-directory throws appends an error entry to the log and commits a
\* tree that holds every entry of the undisturbed scan except the unreadable
\* one and what lies below it.  (The paths of a scan do not depend on the
\* listing order.)
C19_ScanSurvivesUnreadableEntry ==
    [][(lastOp'.name = "pick" /\ lastOp'.arg.picked # Abort
        /\ lastOp'.arg.fault # NoFault)
       => /\ ErrorAppended
          /\ \A p \in PathsOf(scanDirectory(<<lastOp'.arg.picked>>, <<>>,
                                            FALSE, NoFault)) :
                \/ IsPrefix(Tail(lastOp'.arg.fault), p)
                \/ p \in PathsOf(fileEntries')
    ]_vars

\* C20: when the directory picker throws (the user cancels or the grant is
\* denied), an error entry is appended to the log and the tree is the one
\* committed before.
C20_DeniedGrantKeepsTree ==
    [][(lastOp'.name = "pick" /\ lastOp'.arg.picked = Abort)
       => /\ ErrorAppended
          /\ fileEntries' = fileEntries
    ]_vars

\* C20 witness: a grant was denied while a scanned tree was on display, and
\* the tree is still there.
C20_Witness ==
    /\ lastOp.name = "pick" /\ lastOp.arg.picked = Abort /\ ~lastOp.ok
    /\ fileEntries # <<>>
    /\ logs[Len(logs)] = "error"

\* Every node of a tree data, at any depth, and every list of siblings.
RECURSIVE AllNodes(_)
AllNodes(nodes) ==
    IF nodes = <<>> THEN {}
    ELSE {Head(nodes)} \cup AllNodes(Head(nodes).children)
         \cup AllNodes(Tail(nodes))
Levels(nodes) == {nodes} \cup {n.children : n \in AllNodes(nodes)}
Rendered == output # Null /\ output.of = "convertToTreeData"
\* The entries below the root-level entries of the tree.
Reachable ==
    AllEntries(SelectSeq(fileEntries, LAMBDA e : Len(e.path) <= 1))

\* C24: the tree data computed from the tree holds no directory node with
\* an empty children list, at any level, and holds a node for every file
\* entry below a root-level entry.
C24_NoEmptyDirectoryNode ==
    Rendered
    => /\ \A n \in AllNodes(output.value) :
             n.type = "directory" => n.children # <<>>
       /\ \A e \in Reachable :
             e.type = "file"
             => \E n \in AllNodes(output.value) :
                   n.id = e.path /\ n.type = "file"

\* C24 witness: a directory that holds nothing but an empty directory was
\* left out of the tree data, next to a file that is in it.
C24_Witness ==
    /\ Rendered
    /\ \E i \in 1..Len(fileEntries) :
          /\ fileEntries[i].type = "directory"
          /\ fileEntries[i].children # <<>>
          /\ \A c \in AllEntries(fileEntries[i].children) :
                c.type = "directory"
          /\ \A n \in AllNodes(output.value) : n.id # fileEntries[i].path
    /\ output.value # <<>>

\* C25: in every list of siblings of the tree data no file node precedes a
\* directory node, and of two nodes of the same kind the one that
\* localeCompare sorts first comes first.
C25_DirectoriesFirstThenByName ==
    Rendered
    => \A level \in Levels(output.value) :
          \A i \in 1..Len(level) : \A j \in (i + 1)..Len(level) :
             /\ ~(level[i].type = "file" /\ level[j].type = "directory")
             /\ level[i].type = level[j].type
                => LocaleRank(level[i].name) <= LocaleRank(level[j].name)

\* C25 witness: the tree lists a file before a directory and e before d; the
\* tree data has d, then e, then the file.
C25_Witness ==
    /\ Rendered
    /\ Len(fileEntries) = 2
    /\ fileEntries[1].type = "directory" /\ fileEntries[1].name = DirE
    /\ fileEntries[2].type = "directory" /\ fileEntries[2].name = DirD
    /\ \E k \in 1..Len(fileEntries[2].children) :
          fileEntries[2].children[k].type = "directory"
          /\ k > 1
    /\ Len(output.value) = 2
    /\ output.value[1].name = DirD /\ output.value[2].name = DirE
    /\ output.value[1].children[1].type = "directory"

\* C26 (as claimed): the classifier returns the table's tag when the
\* lower-cased text after the last '.' of the name is a key of the table, and
\* "plaintext" otherwise, a name without any '.' included.
C26_ClassifyByExtension ==
    (output # Null /\ output.of = "getLanguageFromFileName")
    => output.value =
          IF Len(input) >= 2 /\ ToLowerCase(Last(input)) \in LanguageMapKeys
          THEN languageMap(ToLowerCase(Last(input)))
          ELSE "plaintext"

\* C27 (as claimed): no two distinct entries of the tree, at any depth and
\* under any key, have the same path.
C27_PathsAreUnique ==
    \A e1 \in AllEntries(fileEntries) : \A e2 \in AllEntries(fileEntries) :
        e1.path = e2.path => e1 = e2

\* The picked directories the handles of the tree lie in: after a grant and
\* its scan, the granted root.
GrantedRoots == {e.handle[1] : e \in AllEntries(fileEntries)}

\* C28 (as claimed): a create or a move that succeeds with the root as the
\* target parent obtains the new file's handle from the directory that was
\* granted and scanned, the one the handles of the tree lie in.
C28_RootTargetIsGrantedRoot ==
    [][(/\ lastOp'.ok
        /\ \/ lastOp'.name = "create" /\ Front(selectedFile.filename) = <<>>
           \/ lastOp'.name = "move" /\ lastOp'.arg[2] = <<>>
        /\ GrantedRoots # {})
       => \A k \in 1..Len(lastOp'.calls) :
             lastOp'.calls[k][1] = "getFileHandle"
             => lastOp'.calls[k][2][1] \in GrantedRoots
    ]_vars

\* C21 (as claimed): the scan of a grant does not change the tree when it
\* finishes while a grant started after it is still scanning, nor when it
\* finishes right after a grant that was started after it: of two
\* overlapping grants, the tree is the result of the one started last.
C21_LastGrantWins ==
    [][(/\ lastOp'.name = "pickEnd"
        /\ \/ lastOp'.arg.newer # {}
           \/ lastOp.name = "pickEnd" /\ lastOp'.arg.op \in lastOp.arg.older)
       => fileEntries' = fileEntries
    ]_vars

\* The suspended handlers that operate on the File Model.
FileOperations ==
    {i \in 1..Len(pending) : pending[i].name \in {"load", "save"}}

\* C22 (as claimed): at most one load or save is suspended at a capability
\* call at any time.
C22_OneFileOperationInFlight ==
    Cardinality(FileOperations) <= 1

\* C23 (as claimed): a path of the store stays in the store in every step
\* of the program, except in the step of a successful delete of that path.
C23_BufferPersists ==
    [][\A p \in DOMAIN editedFiles :
          \/ p \in DOMAIN editedFiles'
          \/ /\ lastOp'.name = "delete" /\ lastOp'.ok
             /\ lastOp'.arg.filename = p
    ]_vars

\* C29 (as claimed): when a save of the selected file ends right after an
\* edit that was made while the save was suspended, the Selection and the
\* stored buffer keep the edited code and stay modified.
C29_EditSurvivesSave ==
    [][(/\ lastOp.name = "updateCode"
        /\ lastOp'.name = "saveEnd" /\ lastOp'.ok
        /\ selectedFile.filename = lastOp'.arg.op.arg
        /\ selectedFile.isModified
        /\ selectedFile.code # lastOp'.arg.op.selectedFile.code)
       => /\ selectedFile'.code = selectedFile.code
          /\ selectedFile'.isModified
          /\ selectedFile.filename \in DOMAIN editedFiles'
          /\ editedFiles'[selectedFile.filename].code = selectedFile.code
    ]_vars

\* C30 (as claimed): when the load of A, requested first, ends right after
\* the load of B, requested while A's was suspended, and no load is left,
\* the Selection is B.
C30_LastRequestedFileSelected ==
    [][(/\ lastOp.name = "loadEnd" /\ lastOp.ok
        /\ lastOp'.name = "loadEnd" /\ lastOp'.ok
        /\ lastOp'.arg.op \in lastOp.arg.older
        /\ \A i \in 1..Len(pending') : pending'[i].name # "load")
       => selectedFile'.filename = lastOp.arg.op.arg
    ]_vars

\* C31 (as claimed): when Ctrl/Cmd+S is pressed while a file of the tree is
\* selected and modified, the registered command invokes save, and the save
\* is of the Selection of that moment.
C31_KeyCommandSavesCurrentSelection ==
    [][(/\ lastOp'.name = "ctrlS" /\ selectedFile.isModified
        /\ FileEntryAt(selectedFile.filename))
       => /\ lastOp'.arg.invoked
          /\ lastOp'.arg.selectedFile = selectedFile
    ]_vars

\* C32 (as claimed): after a successful move of a file that has a buffer in
\* the store under its old path, the store holds that buffer under the new
\* path and nothing under the old path.
C32_MoveCarriesBuffer ==
    [][(/\ lastOp'.name = "move" /\ lastOp'.ok
        /\ lastOp'.arg[1] \in DOMAIN editedFiles)
       => LET dragId == lastOp'.arg[1]
              newPath == Append(lastOp'.arg[2], Last(dragId))
          IN /\ newPath \in DOMAIN editedFiles'
             /\ editedFiles'[newPath] = editedFiles[dragId]
             /\ dragId \notin DOMAIN editedFiles'
    ]_vars

\* C33 (as claimed): whenever a file of the tree is selected and the
\* Selection is not modified, Selection.code is the content on disk of that
\* file.
C33_UnmodifiedSelectionIsDiskContent ==
    (/\ selectedFile.filename # <<>>
     /\ ~selectedFile.isModified
     /\ FileEntryAt(selectedFile.filename))
    => \A e \in AllEntries(fileEntries) :
          (e.path = selectedFile.filename /\ e.type = "file")
          => /\ e.handle \in DOMAIN disk
             /\ selectedFile.code = disk[e.handle]

\* C34 (as claimed): a move of a file into a directory (or the root) whose
\* tree already holds an entry with the path the file would get leaves the
\* file of that entry on disk, and the entry itself, as they were.
C34_MoveNeverClobbers ==
    [][(/\ lastOp'.name = "move"
        /\ FileEntryAt(lastOp'.arg[1])
        /\ Append(lastOp'.arg[2], Last(lastOp'.arg[1])) # lastOp'.arg[1])
       => \A e \in AllEntries(fileEntries) :
             (/\ e.path = Append(lastOp'.arg[2], Last(lastOp'.arg[1]))
              /\ e.handle \in DOMAIN disk)
             => /\ e.handle \in DOMAIN disk'
                /\ disk'[e.handle] = disk[e.handle]
                /\ e \in AllEntries(fileEntries')
    ]_vars

\* C35 (as claimed): while no file is selected, the Selection is not
\* modified and the store has no entry under the empty path.
C35_EmptySelectionStaysClean ==
    selectedFile.filename = <<>>
    => /\ ~selectedFile.isModified
       /\ <<>> \notin DOMAIN editedFiles

====
